---- MODULE Spec2Model ----
(***************************************************************************)
(* Model of scripts/generate-torus-knot.py: generate_torus_knot_obj.       *)
(*                                                                         *)
(* The function is one sequential run: the vertex/normal loops (lines      *)
(* 73-105), the face loop (108-116) and the write pass (119-138).  Each    *)
(* loop iteration and each f.write call is one step.  Floating point       *)
(* numbers are fixed-point integers with Scale units per 1.0; angles are   *)
(* exact fractions of a full turn (a/n turns = a/n * 2*pi radians).        *)
(***************************************************************************)
EXTENDS Integers, Sequences, FiniteSets

\* ---------------------------------------------------------------- bounds
MaxWind == 3
MaxPath == 4
MaxTube == 4
Scale == 1000

VARIABLES p, q, path_segments, tube_segments, torus_radius, tube_radius,
          pc, err, i, j, pos, tangent, normal1, normal2,
          vertices, normals, faces, fileExists, fileLines, w

config == <<p, q, path_segments, tube_segments, torus_radius, tube_radius>>
frame == <<pos, tangent, normal1, normal2>>
mesh == <<vertices, normals, faces>>
file == <<fileExists, fileLines>>
vars == <<config, pc, err, i, j, frame, mesh, file, w>>

\* ------------------------------------------------- fixed-point arithmetic
Abs(x) == IF x < 0 THEN -x ELSE x

\* integer quotient truncated toward zero (b > 0)
TDiv(a, b) == IF a >= 0 THEN a \div b ELSE -((-a) \div b)

\* float product and quotient at resolution Scale
Mul(a, b) == TDiv(a * b, Scale)
Div(a, b) == TDiv(a * Scale, b)

RECURSIVE SqrtSearch(_, _, _)
SqrtSearch(x, lo, hi) ==
    IF lo >= hi THEN lo
    ELSE LET mid == (lo + hi + 1) \div 2
         IN  IF mid * mid <= x THEN SqrtSearch(x, mid, hi)
                               ELSE SqrtSearch(x, lo, mid - 1)

\* math.sqrt of a fixed-point value x >= 0
Sqrt(x) == SqrtSearch(x * Scale, 0, 46340)

\* sine of the half-turn fraction m/n, 0 <= m <= n (Bhaskara's rational
\* approximation: exact at 0, 1/12, 1/4, 5/12 and 1/2 turn)
SinHalf(m, n) == (Scale * 16 * m * (n - m)) \div (5 * n * n - 4 * m * (n - m))

\* math.sin and math.cos of the angle a/n turns (n > 0)
Sin(a, n) ==
    LET m == 2 * (a % n)
    IN  IF m <= n THEN SinHalf(m, n) ELSE -SinHalf(m - n, n)

Cos(a, n) == Sin(4 * a + n, 4 * n)

\* ------------------------------------------------------- nested functions
\* t is the angle a/n turns; n = path_segments > 0
calculate_position(a, n) ==
    LET cos_pt == Cos(p * a, n)
        sin_pt == Sin(p * a, n)
        cos_qt == Cos(q * a, n)
        sin_qt == Sin(q * a, n)
        R == torus_radius
        r == tube_radius * 2
    IN  << Mul(cos_pt, R + Mul(r, cos_qt)),
           Mul(sin_pt, R + Mul(r, cos_qt)),
           Mul(r, sin_qt) >>

\* the derivatives dx_dt, dy_dt, dz_dt of lines 46-50
derivative(a, n) ==
    LET cos_pt == Cos(p * a, n)
        sin_pt == Sin(p * a, n)
        cos_qt == Cos(q * a, n)
        sin_qt == Sin(q * a, n)
        r2 == tube_radius * 2
    IN  << (-p) * Mul(sin_pt, torus_radius + Mul(r2, cos_qt))
              - q * Mul(Mul(r2, cos_pt), sin_qt),
           p * Mul(cos_pt, torus_radius + Mul(r2, cos_qt))
              - q * Mul(Mul(r2, sin_pt), sin_qt),
           q * Mul(r2, cos_qt) >>

vlength(v) == Sqrt(Mul(v[1], v[1]) + Mul(v[2], v[2]) + Mul(v[3], v[3]))

calculate_tangent_wrong_fallback(a, n) ==
    LET d == derivative(a, n)
        length == vlength(d)
    IN  IF length > 0
        THEN << Div(d[1], length), Div(d[2], length), Div(d[3], length) >>
        ELSE << 0, 0, Scale >>

calculate_tangent(a, n) ==
    LET d == derivative(a, n)
        length == vlength(d)
    IN  IF length > 0
        THEN << Div(d[1], length), Div(d[2], length), Div(d[3], length) >>
        ELSE << Scale, 0, 0 >>

cross_product(a, b) ==
    << Mul(a[2], b[3]) - Mul(a[3], b[2]),
       Mul(a[3], b[1]) - Mul(a[1], b[3]),
       Mul(a[1], b[2]) - Mul(a[2], b[1]) >>

normalize(v) ==
    LET length == vlength(v)
    IN  IF length > 0
        THEN << Div(v[1], length), Div(v[2], length), Div(v[3], length) >>
        ELSE << 0, 0, Scale >>

\* the reference vector of lines 80-83
up_for(tan) ==
    IF Abs(tan[3]) < (9 * Scale) \div 10 THEN << 0, 0, Scale >>
                                          ELSE << 0, Scale, 0 >>

\* lines 91-97: the normal direction at profile angle b/m turns
tube_normal(n1, n2, b, m) ==
    LET cos_v == Cos(b, m)
        sin_v == Sin(b, m)
    IN  << Mul(n1[1], cos_v) + Mul(n2[1], sin_v),
           Mul(n1[2], cos_v) + Mul(n2[2], sin_v),
           Mul(n1[3], cos_v) + Mul(n2[3], sin_v) >>

\* lines 100-102
tube_vertex(ps, nrm) ==
    << ps[1] + Mul(tube_radius, nrm[1]),
       ps[2] + Mul(tube_radius, nrm[2]),
       ps[3] + Mul(tube_radius, nrm[3]) >>

\* ------------------------------------------------------------ loop ranges
RingCount_one_short == path_segments

\* range(path_segments + 1), line 73
RingCount == path_segments + 1

ProfileCount_one_short == tube_segments

\* range(tube_segments + 1), line 88
ProfileCount == tube_segments + 1

face_zero_based(fi, fj) ==
    LET v1 == fi * (tube_segments + 1) + fj
        v2 == v1 + 1
        v3 == v1 + (tube_segments + 1)
        v4 == v3 + 1
    IN  << v1, v2, v4, v3 >>

face_row_order(fi, fj) ==
    LET v1 == fi * (tube_segments + 1) + fj
        v2 == v1 + 1
        v3 == v1 + (tube_segments + 1)
        v4 == v3 + 1
    IN  << v1 + 1, v2 + 1, v3 + 1, v4 + 1 >>

face_wrong_stride(fi, fj) ==
    LET v1 == fi * tube_segments + fj
        v2 == v1 + 1
        v3 == v1 + tube_segments
        v4 == v3 + 1
    IN  << v1 + 1, v2 + 1, v4 + 1, v3 + 1 >>

face_wrapped(fi, fj) ==
    LET v1 == fi * (tube_segments + 1) + fj
        v2 == fi * (tube_segments + 1) + ((fj + 1) % tube_segments)
        v3 == v1 + (tube_segments + 1)
        v4 == v2 + (tube_segments + 1)
    IN  << v1 + 1, v2 + 1, v4 + 1, v3 + 1 >>

\* lines 110-116: the quad appended for (i, j)
face(fi, fj) ==
    LET v1 == fi * (tube_segments + 1) + fj
        v2 == v1 + 1
        v3 == v1 + (tube_segments + 1)
        v4 == v3 + 1
    IN  << v1 + 1, v2 + 1, v4 + 1, v3 + 1 >>

\* ------------------------------------------------------------ file lines
\* A line of the OBJ text: its leading text and the numbers formatted into
\* it.  The .6f format is finer than Scale, so it prints a value unchanged.
Line(tag, nums) == [tag |-> tag, a |-> nums]

header_line(k) ==
    IF k = 1 THEN << Line("# Torus Knot", << p, q >>) >>
    ELSE IF k = 2
         THEN << Line("# Generated with correct parametric equations", << >>) >>
         ELSE << Line("# Vertices, Faces", << Len(vertices), Len(faces) >>),
                 Line("", << >>) >>

vertex_line(v) == Line("v", v)

normal_line(n) == Line("vn", n)

face_line(f) == Line("f", << f[1], f[1], f[2], f[2], f[3], f[3], f[4], f[4] >>)

blank_line == Line("", << >>)

\* ------------------------------------------------------------------ state
WritePhases == {"header", "v", "sep1", "vn", "sep2", "f", "close"}

\* where control goes when a loop over `count` items is entered
Enter(count, body, after) == IF count > 0 THEN body ELSE after

Radii == { << Scale, (3 * Scale) \div 10 >>, << 0, 0 >> }

Init ==
    /\ p \in 0..MaxWind
    /\ q \in 0..MaxWind
    /\ path_segments \in 0..MaxPath
    /\ tube_segments \in 0..MaxTube
    /\ \E rr \in Radii :
          /\ torus_radius = rr[1]
          /\ tube_radius = rr[2]
    /\ vertices = << >>
    /\ normals = << >>
    /\ faces = << >>
    /\ pos = << 0, 0, 0 >>
    /\ tangent = << 0, 0, 0 >>
    /\ normal1 = << 0, 0, 0 >>
    /\ normal2 = << 0, 0, 0 >>
    /\ i = 0
    /\ j = 0
    /\ w = 0
    /\ err = "none"
    /\ fileExists = FALSE
    /\ fileLines = << >>
    /\ pc = "ring"

\* an uncaught exception ends the run
Raise(e) ==
    /\ pc' = "failed"
    /\ err' = e

\* lines 73-86: the head of one outer iteration
RingStep ==
    /\ pc = "ring"
    /\ IF path_segments = 0
       THEN /\ Raise("ZeroDivisionError")
            /\ UNCHANGED << config, i, j, frame, mesh, file, w >>
       ELSE LET ps == calculate_position(i, path_segments)
                tn == calculate_tangent(i, path_segments)
                n1 == normalize(cross_product(tn, up_for(tn)))
                n2 == normalize(cross_product(tn, n1))
            IN  /\ pos' = ps
                /\ tangent' = tn
                /\ normal1' = n1
                /\ normal2' = n2
                /\ j' = 0
                /\ pc' = "tube"
                /\ UNCHANGED << config, err, i, mesh, file, w >>

\* lines 88-105: one inner iteration, and the loop exits it reaches
TubeStep ==
    /\ pc = "tube"
    /\ IF tube_segments = 0
       THEN /\ Raise("ZeroDivisionError")
            /\ UNCHANGED << config, i, j, frame, mesh, file, w >>
       ELSE LET nrm == tube_normal(normal1, normal2, j, tube_segments)
                vtx == tube_vertex(pos, nrm)
            IN  /\ vertices' = Append(vertices, vtx)
                /\ normals' = Append(normals, nrm)
                /\ IF j + 1 < ProfileCount
                   THEN /\ j' = j + 1
                        /\ UNCHANGED << i, pc >>
                   ELSE IF i + 1 < RingCount
                        THEN /\ i' = i + 1
                             /\ pc' = "ring"
                             /\ UNCHANGED j
                        ELSE /\ i' = 0
                             /\ j' = 0
                             /\ pc' = Enter(path_segments * tube_segments,
                                            "face", "open")
                /\ UNCHANGED << config, err, frame, faces, file, w >>

\* lines 108-116: one iteration of the face loops
FaceStep ==
    /\ pc = "face"
    /\ faces' = Append(faces, face(i, j))
    /\ IF j + 1 < tube_segments
       THEN /\ j' = j + 1
            /\ UNCHANGED << i, pc >>
       ELSE IF i + 1 < path_segments
            THEN /\ i' = i + 1
                 /\ j' = 0
                 /\ UNCHANGED pc
            ELSE /\ pc' = "open"
                 /\ UNCHANGED << i, j >>
    /\ UNCHANGED << config, err, frame, vertices, normals, file, w >>

OpenFile_before_faces ==
    /\ pc = "face"
    /\ i = 0
    /\ j = 0
    /\ fileExists' = TRUE
    /\ fileLines' = << >>
    /\ w' = 1
    /\ pc' = "header"
    /\ UNCHANGED << config, err, i, j, frame, mesh >>

\* line 119: open(output_file, 'w') creates or truncates the destination
OpenFile ==
    /\ pc = "open"
    /\ fileExists' = TRUE
    /\ fileLines' = << >>
    /\ w' = 1
    /\ pc' = "header"
    /\ UNCHANGED << config, err, i, j, frame, mesh >>

\* line 119: open raises OSError; nothing is created
OpenFail ==
    /\ pc = "open"
    /\ Raise("OSError")
    /\ UNCHANGED << config, i, j, frame, mesh, file, w >>

\* lines 120-122: the three header writes
WriteHeader ==
    /\ pc = "header"
    /\ fileLines' = fileLines \o header_line(w)
    /\ IF w < 3
       THEN /\ w' = w + 1
            /\ UNCHANGED pc
       ELSE /\ w' = 1
            /\ pc' = Enter(Len(vertices), "v", "sep1")
    /\ UNCHANGED << config, err, i, j, frame, mesh, fileExists >>

\* lines 125-126
WriteVertex ==
    /\ pc = "v"
    /\ fileLines' = Append(fileLines, vertex_line(vertices[w]))
    /\ IF w < Len(vertices)
       THEN /\ w' = w + 1
            /\ UNCHANGED pc
       ELSE /\ w' = 1
            /\ pc' = "sep1"
    /\ UNCHANGED << config, err, i, j, frame, mesh, fileExists >>

\* line 128
WriteSep1 ==
    /\ pc = "sep1"
    /\ fileLines' = Append(fileLines, blank_line)
    /\ pc' = Enter(Len(normals), "vn", "sep2")
    /\ UNCHANGED << config, err, i, j, frame, mesh, fileExists, w >>

\* lines 131-132
WriteNormal ==
    /\ pc = "vn"
    /\ fileLines' = Append(fileLines, normal_line(normals[w]))
    /\ IF w < Len(normals)
       THEN /\ w' = w + 1
            /\ UNCHANGED pc
       ELSE /\ w' = 1
            /\ pc' = "sep2"
    /\ UNCHANGED << config, err, i, j, frame, mesh, fileExists >>

\* line 134
WriteSep2 ==
    /\ pc = "sep2"
    /\ fileLines' = Append(fileLines, blank_line)
    /\ pc' = Enter(Len(faces), "f", "close")
    /\ UNCHANGED << config, err, i, j, frame, mesh, fileExists, w >>

\* lines 137-138
WriteFace ==
    /\ pc = "f"
    /\ fileLines' = Append(fileLines, face_line(faces[w]))
    /\ IF w < Len(faces)
       THEN /\ w' = w + 1
            /\ UNCHANGED pc
       ELSE /\ w' = 1
            /\ pc' = "close"
    /\ UNCHANGED << config, err, i, j, frame, mesh, fileExists >>

\* the end of the with block (line 138) and the prints of lines 140-143
CloseFile ==
    /\ pc = "close"
    /\ pc' = "done"
    /\ UNCHANGED << config, err, i, j, frame, mesh, file, w >>

\* lines 119-138: a write (or the flush at close) raises OSError; the with
\* block closes the file and the exception leaves the function.  Nothing
\* removes the destination, which keeps what was written.
WriteFail ==
    /\ pc \in WritePhases
    /\ Raise("OSError")
    /\ UNCHANGED << config, i, j, frame, mesh, file, w >>

Next ==
    \/ RingStep
    \/ TubeStep
    \/ FaceStep
    \/ OpenFile
    \/ OpenFail
    \/ WriteHeader
    \/ WriteVertex
    \/ WriteSep1
    \/ WriteNormal
    \/ WriteSep2
    \/ WriteFace
    \/ CloseFile
    \/ WriteFail

Spec == Init /\ [][Next]_vars

\* ------------------------------------------------------------ properties
Valid ==
    /\ p >= 1
    /\ q >= 1
    /\ path_segments >= 3
    /\ tube_segments >= 3

\* both generation loops have finished
GenerationFinished ==
    \/ pc \in WritePhases \cup {"open", "done"}
    \/ pc = "failed" /\ err = "OSError"

SeqMap(Op(_), s) == [k \in 1..Len(s) |-> Op(s[k])]

\* the text a complete write pass produces from the lists in memory
CompleteText ==
    header_line(1) \o header_line(2) \o header_line(3)
        \o SeqMap(vertex_line, vertices) \o << blank_line >>
        \o SeqMap(normal_line, normals) \o << blank_line >>
        \o SeqMap(face_line, faces)

IsPrefix(s, t) == Len(s) <= Len(t) /\ \A k \in 1..Len(s) : s[k] = t[k]

IsStrictPrefix(s, t) == Len(s) < Len(t) /\ IsPrefix(s, t)

\* C1: for a valid configuration, once both generation loops have finished
\* the vertex list has (path_segments+1)*(tube_segments+1) entries and the
\* face list has path_segments*tube_segments entries.
C1_Counts ==
    (Valid /\ GenerationFinished) =>
        /\ Len(vertices) = (path_segments + 1) * (tube_segments + 1)
        /\ Len(faces) = path_segments * tube_segments

C1_Witness ==
    /\ p = 3 /\ q = 2 /\ path_segments = 4 /\ tube_segments = 4
    /\ pc = "open"
    /\ Len(vertices) = 25
    /\ Len(faces) = 16

\* C2: for a valid configuration every index of every emitted face lies in
\* 1..vertex_count and the four indices of a face are pairwise distinct.
C2_FaceIndices ==
    Valid =>
        \A k \in 1..Len(faces) :
            /\ \A c \in 1..4 : faces[k][c] \in 1..Len(vertices)
            /\ \A c, d \in 1..4 : c # d => faces[k][c] # faces[k][d]

C2_Witness ==
    /\ Valid
    /\ pc = "open"
    /\ Len(faces) = path_segments * tube_segments
    /\ \E k \in 1..Len(faces) : \E c \in 1..4 : faces[k][c] = Len(vertices)

\* C3 (as the spec states it): with an invalid configuration nothing is ever
\* computed, the destination is never created and the run never completes.
C3_InvalidConfigRejected ==
    ~Valid =>
        /\ Len(vertices) = 0
        /\ Len(normals) = 0
        /\ Len(faces) = 0
        /\ ~fileExists
        /\ pc # "done"

\* C4 (as the spec states it): after a run of a valid configuration aborted
\* by an I/O failure the destination never holds a strict prefix of the
\* complete mesh text.
C4_NoPartialFile ==
    (Valid /\ pc = "failed" /\ err = "OSError") =>
        ~(fileExists /\ IsStrictPrefix(fileLines, CompleteText))

\* C5: the face for (i, j) is the one-based tuple (v1+1, v2+1, v4+1, v3+1)
\* with v1 = i*(M+1)+j, v2 = v1+1, v3 = v1+(M+1), v4 = v3+1, and it is at
\* position i*M+j of the face list (i outer, j inner).
C5_FaceTuple ==
    \A fi \in 0..(path_segments - 1) : \A fj \in 0..(tube_segments - 1) :
        LET M == tube_segments
            v1 == fi * (M + 1) + fj
            v2 == v1 + 1
            v3 == v1 + (M + 1)
            v4 == v3 + 1
        IN  (fi * M + fj + 1 <= Len(faces)) =>
                faces[fi * M + fj + 1] = << v1 + 1, v2 + 1, v4 + 1, v3 + 1 >>

C5_Witness ==
    /\ pc = "open"
    /\ path_segments = 3
    /\ tube_segments = 4
    /\ Len(faces) = 12
    /\ faces[6] = << 7, 8, 13, 12 >>

\* the frame the code builds for ring ri, and the vertex and normal it
\* computes for profile index pj of that ring
RingNormal(ri, pj) ==
    LET tn == calculate_tangent(ri, path_segments)
        n1 == normalize(cross_product(tn, up_for(tn)))
        n2 == normalize(cross_product(tn, n1))
    IN  tube_normal(n1, n2, pj, tube_segments)

RingVertex(ri, pj) ==
    tube_vertex(calculate_position(ri, path_segments), RingNormal(ri, pj))

\* C6: the vertex computed for ring i and profile index j is stored at
\* zero-based index i*(tube_segments+1)+j of the vertex list and its normal
\* at the same index of the normal list; the two lists always have equal
\* length; every serialized face corner uses one index for both slots.
C6_IndexAligned ==
    /\ Len(vertices) = Len(normals)
    /\ \A ri \in 0..path_segments : \A pj \in 0..tube_segments :
          LET k == ri * (tube_segments + 1) + pj + 1
          IN  (k <= Len(vertices) /\ pc \in {"ring", "tube", "face", "open"}) =>
                  /\ vertices[k] = RingVertex(ri, pj)
                  /\ normals[k] = RingNormal(ri, pj)
    /\ \A k \in 1..Len(fileLines) :
          fileLines[k].tag = "f" =>
              \A c \in 1..4 : fileLines[k].a[2 * c - 1] = fileLines[k].a[2 * c]

C6_Witness ==
    /\ pc = "done"
    /\ torus_radius > 0
    /\ p = 3 /\ q = 2
    /\ path_segments = 4
    /\ tube_segments = 3
    /\ vertices[7] = RingVertex(1, 2)
    /\ vertices[7] # vertices[6]
    /\ vertices[7] # vertices[8]
    /\ fileLines[Len(fileLines)].tag = "f"

Opened == fileExists \/ pc \in WritePhases \cup {"done"}

C7_MeshComplete ==
    Opened =>
        /\ Len(vertices) = (path_segments + 1) * (tube_segments + 1)
        /\ Len(normals) = (path_segments + 1) * (tube_segments + 1)
        /\ Len(faces) = path_segments * tube_segments
        /\ IsPrefix(fileLines, CompleteText)
        /\ (pc = "done" => fileLines = CompleteText)

\* C7: the destination is not opened and nothing is written until all
\* vertices, normals and faces are computed; the write pass emits the
\* header, the v lines, the vn lines and the f lines in that order and
\* leaves the three lists unchanged.
C7_WriteAfterCompute ==
    /\ [](~Opened => (~fileExists /\ fileLines = << >>))
    /\ []C7_MeshComplete
    /\ [][Opened' => UNCHANGED mesh]_vars

C7_Witness ==
    /\ pc = "done"
    /\ Valid
    /\ fileExists
    /\ fileLines = CompleteText
    /\ Len(fileLines) = 4 + 2 * Len(vertices) + 2 + Len(faces)

\* C8: when the derivative has zero length at a sample, calculate_tangent
\* gives the fallback (1,0,0), the run does not fail at that sample and the
\* ring is still generated; otherwise the tangent is the derivative divided
\* by its length.
C8_TangentFallback ==
    /\ pc = "tube" =>
          LET d == derivative(i, path_segments)
              length == vlength(d)
          IN  IF length = 0
              THEN tangent = << Scale, 0, 0 >>
              ELSE tangent = << Div(d[1], length), Div(d[2], length),
                                Div(d[3], length) >>
    /\ err = "ZeroDivisionError" => (path_segments = 0 \/ tube_segments = 0)
    /\ (pc = "ring" /\ tube_segments > 0) =>
          Len(vertices) = i * (tube_segments + 1)
    /\ (GenerationFinished /\ tube_segments > 0) =>
          Len(vertices) = (path_segments + 1) * (tube_segments + 1)

C8_Witness ==
    /\ Valid
    /\ torus_radius = 0
    /\ pc = "ring"
    /\ i = 2
    /\ vlength(derivative(1, path_segments)) = 0
    /\ tangent = << Scale, 0, 0 >>
    /\ Len(vertices) = 2 * (tube_segments + 1)

DirectedEdges(f) ==
    { << f[1], f[2] >>, << f[2], f[3] >>, << f[3], f[4] >>, << f[4], f[1] >> }

Reverse(e) == << e[2], e[1] >>

\* the face emitted for (fi, fj), by its position in the face list
FaceOf(fi, fj) == faces[fi * tube_segments + fj + 1]

Emitted(fi, fj) ==
    /\ fi \in 0..(path_segments - 1)
    /\ fj \in 0..(tube_segments - 1)
    /\ fi * tube_segments + fj + 1 <= Len(faces)

\* two faces share an edge, and traverse it in opposite directions
OpposedOnSharedEdge(f, g) ==
    /\ \E e \in DirectedEdges(f) : Reverse(e) \in DirectedEdges(g)
    /\ DirectedEdges(f) \cap DirectedEdges(g) = {}

\* C9: reading each face as a directed cycle, no directed edge occurs in
\* more than one face, and neighbouring faces (i,j)/(i,j+1) and
\* (i,j)/(i+1,j) traverse their shared edge in opposite directions.
C9_ConsistentWinding ==
    pc \in {"face", "open"} =>
        /\ \A a, b \in 1..Len(faces) :
              a # b => DirectedEdges(faces[a]) \cap DirectedEdges(faces[b]) = {}
        /\ \A a \in 1..Len(faces) : Cardinality(DirectedEdges(faces[a])) = 4
        /\ \A fi \in 0..(path_segments - 1) : \A fj \in 0..(tube_segments - 1) :
              /\ (Emitted(fi, fj) /\ Emitted(fi, fj + 1)) =>
                    OpposedOnSharedEdge(FaceOf(fi, fj), FaceOf(fi, fj + 1))
              /\ (Emitted(fi, fj) /\ Emitted(fi + 1, fj)) =>
                    OpposedOnSharedEdge(FaceOf(fi, fj), FaceOf(fi + 1, fj))

C9_Witness ==
    /\ pc = "open"
    /\ path_segments = 4
    /\ tube_segments = 4
    /\ Emitted(1, 1) /\ Emitted(1, 2) /\ Emitted(2, 1)
    /\ << 8, 13 >> \in DirectedEdges(FaceOf(1, 1))
    /\ << 13, 8 >> \in DirectedEdges(FaceOf(1, 2))
    /\ << 13, 12 >> \in DirectedEdges(FaceOf(1, 1))
    /\ << 12, 13 >> \in DirectedEdges(FaceOf(2, 1))

Corners(f) == { f[1], f[2], f[3], f[4] }

\* one-based index of the vertex of ring ri, profile index pj
IndexOf(ri, pj) == ri * (tube_segments + 1) + pj + 1

UseCount(idx) == Cardinality({ k \in 1..Len(faces) : idx \in Corners(faces[k]) })

\* C10: for a valid configuration, when the face loop has finished every
\* vertex index is used by at least one and at most four faces, and the
\* corners of face (i, j) are exactly the vertices (i,j), (i,j+1),
\* (i+1,j+1), (i+1,j): the seam vertices are reached without wrapping.
C10_NoSeamWrap ==
    (Valid /\ pc = "open") =>
        /\ \A idx \in 1..Len(vertices) : UseCount(idx) \in 1..4
        /\ \A fi \in 0..(path_segments - 1) : \A fj \in 0..(tube_segments - 1) :
              Corners(FaceOf(fi, fj)) =
                  { IndexOf(fi, fj), IndexOf(fi, fj + 1),
                    IndexOf(fi + 1, fj + 1), IndexOf(fi + 1, fj) }

C10_Witness ==
    /\ Valid
    /\ pc = "open"
    /\ path_segments = 3
    /\ tube_segments = 3
    /\ UseCount(IndexOf(3, 3)) = 1
    /\ UseCount(IndexOf(0, 3)) = 1
    /\ UseCount(IndexOf(1, 1)) = 4
    /\ IndexOf(0, 3) \in Corners(FaceOf(0, 2))
    /\ IndexOf(3, 3) \in Corners(FaceOf(2, 2))

====
